---------------------------- MODULE Spec2Model ----------------------------
(***************************************************************************)
(* Model of the FEniCS-preCICE adapter (fenicsadapter/fenicsadapter.py,    *)
(* fenicsadapter/config.py): the coupling step controller Adapter with its *)
(* checkpoint, and the read-side boundary expression CustomExpression.     *)
(*                                                                         *)
(* The external coordinator (self._interface) is a nondeterministic        *)
(* environment: each answer it gives (is_action_required, advance, the     *)
(* data it returns on a read) is drawn from a small set.  The calls the    *)
(* adapter makes on it are recorded, in order, in last.calls.              *)
(*                                                                         *)
(* Checkpoint and SolverState are imported by fenicsadapter.py from        *)
(* modules that are not part of the sources at hand; they are modelled     *)
(* from the specification (section 3, 4.4): the store holds zero or one    *)
(* state, save overwrites, get fails on an empty store.                    *)
(*                                                                         *)
(* The model starts from a constructed adapter.  (Adapter.__init__ and     *)
(* initialize call get_solver_name() and get_n_substeps() on the Config    *)
(* object, which config.py does not define; the answers are taken as       *)
(* given by the configuration.)  The solver passes its own (u_n, t, n) to  *)
(* initialize and to every advance and takes over the (t, n) advance       *)
(* returns; an exception is not caught and ends the run.                   *)
(*                                                                         *)
(* Times and step sizes are integers; field objects are opaque tokens.     *)
(* Interpolated values are exact rationals (num/den), or nan/inf where     *)
(* the floating point evaluation divides by zero.                          *)
(***************************************************************************)
EXTENDS Integers, Sequences, FiniteSets, TLC

(***************************************************************************)
(* Bounds of the model.                                                    *)
(***************************************************************************)
\* Advance is not taken beyond this simulation time.
MaxTime == 3
\* Advance is not taken when the checkpoint's step index has reached this.
MaxStep == 2
\* No more than this many restoring invocations follow each other directly.
MaxRestores == 2

\* Step sizes the solver passes to advance, and the coordinator returns.
Dts == {1, 2}
\* Field objects (dolfin Functions), as opaque tokens.
Fields == {"ua", "ub"}
\* (t, n) the solver passes to initialize.
InitTimes == {0}
InitSteps == {0, 1}

VARIABLES
    json,         \* the adapter configuration file, until it has been read
    config,       \* Config: the attributes read_json has set
    mesh,         \* the FEniCS mesh and coupling subdomain handed to initialize
    phase,        \* "created" | "constructed" | "initialized" | "crashed"
    finalized,    \* self._interface.finalize() has been called
    checkpoint,   \* self._checkpoint: <<>> or <<state>>
    u_n, t, n,    \* the solver's (caller's) state; u_n is passed by reference
    vertices,     \* self._coupling_mesh_vertices, self._n_vertices, self._vertex_ids
    write_data,   \* self._write_data
    read_data,    \* self._read_data
    expr,         \* self._coupling_bc_expression: <<>> or <<CustomExpression>>
    saves,        \* history: the states handed to Checkpoint.write, in order
    last          \* history: the most recent invocation, its inputs and outcome

vars == <<json, config, mesh, phase, finalized, checkpoint, u_n, t, n, vertices,
          write_data, read_data, expr, saves, last>>

(***************************************************************************)
(* SolverState (spec section 3): {field_snapshot, time, step_index}.       *)
(***************************************************************************)
SolverState(u, time, step) == [u |-> u, t |-> time, n |-> step]

\* SolverState.update(other): all three components are taken from other.
StateUpdate(state, other) == other

(***************************************************************************)
(* Checkpoint (spec section 4.4): zero or one state.                       *)
(***************************************************************************)
CheckpointEmpty == <<>>

CheckpointIsEmpty(cp) == cp = <<>>

\* save(state): overwrites any existing checkpoint.
CheckpointWrite(cp, state) == <<state>>

\* get() -> state; the caller has to look at CheckpointIsEmpty first: on an
\* empty store get fails (NoCheckpointError).
CheckpointGetState(cp) == cp[1]


(***************************************************************************)
(* Meshes.  A mesh is its vertices in dolfin's traversal order; "on" is    *)
(* the answer of coupling_subdomain.inside(v.point(), True).               *)
(***************************************************************************)
Vertex(x, y, on) == [x |-> x, y |-> y, on |-> on]

\* The unit square, every corner on the coupling boundary (spec section 8).
SquareMesh ==
    [dim |-> 2,
     verts |-> <<Vertex(0, 0, TRUE), Vertex(1, 0, TRUE),
                 Vertex(1, 1, TRUE), Vertex(0, 1, TRUE)>>]

\* Two columns of vertices, the right one (x = 1) being the coupling
\* boundary; coupled to a 3-D participant (get_dimensions() = 3).
EdgeMesh ==
    [dim |-> 3,
     verts |-> <<Vertex(0, 0, FALSE), Vertex(1, 0, TRUE), Vertex(0, 1, FALSE),
                 Vertex(1, 2, TRUE), Vertex(1, 1, TRUE)>>]

Meshes == {SquareMesh, EdgeMesh}

\* The vertices for which inside(...) holds, in traversal order.
RECURSIVE BoundaryOf(_)
BoundaryOf(verts) ==
    IF verts = <<>> THEN <<>>
    ELSE IF Head(verts).on THEN <<Head(verts)>> \o BoundaryOf(Tail(verts))
         ELSE BoundaryOf(Tail(verts))

\* Adapter.extract_coupling_boundary_vertices: the stacked coordinate rows
\* and the count; for 3 dimensions the z row is all zero.
extract_coupling_boundary_vertices(m) ==
    LET b == BoundaryOf(m.verts)
        xs == [i \in 1..Len(b) |-> b[i].x]
        ys == [i \in 1..Len(b) |-> b[i].y]
        zs == [i \in 1..Len(b) |-> 0]
    IN  [rows |-> IF m.dim = 3 THEN <<xs, ys, zs>> ELSE <<xs, ys>>,
         n |-> Len(b)]

\* The coordinates handed back in the opposite order of the traversal.
extract_coordinates_backwards(m) ==
    LET v == extract_coupling_boundary_vertices(m).rows
        k == Len(v[1])
    IN  [x |-> [i \in 1..k |-> v[1][k + 1 - i]],
         y |-> [i \in 1..k |-> v[2][k + 1 - i]]]

\* Adapter.extract_coupling_boundary_coordinates: the x and y rows, also for
\* 3 dimensions.
extract_coupling_boundary_coordinates(m) ==
    LET v == extract_coupling_boundary_vertices(m).rows
    IN  [x |-> v[1], y |-> v[2]]

(***************************************************************************)
(* Solver fields handed over for sampling.                                 *)
(***************************************************************************)
\* "lin" is a dolfin.Function object, "expr" is of another type.
WriteFunctions == {"lin", "expr"}

IsDolfinFunction(f) == f = "lin"

\* data(x, y): point evaluation of a dolfin.Function.
FunctionValue(f, x, y) == 1 + x + 2 * y

\* Adapter.convert_fenics_to_precice: one value per boundary vertex, in the
\* order of the extraction.  Defined for dolfin.Function only (the caller
\* tests IsDolfinFunction; the code raises otherwise).
convert_fenics_to_precice(f, m) ==
    LET c == extract_coupling_boundary_coordinates(m)
    IN  [i \in 1..Len(c.x) |-> FunctionValue(f, c.x[i], c.y[i])]

(***************************************************************************)
(* CustomExpression.                                                       *)
(***************************************************************************)
\* update_boundary_data(vals, coords_x, coords_y): coords_z defaults to
\* zeros of the shape of coords_x.
update_boundary_data(vals, coords_x, coords_y) ==
    [coords_x |-> coords_x,
     coords_y |-> coords_y,
     coords_z |-> [i \in 1..Len(coords_x) |-> 0],
     vals |-> vals]

Finite(num, den) == [kind |-> "finite", num |-> num, den |-> den]
NotFinite(kind) == [kind |-> kind, num |-> 0, den |-> 1]

\* The value v as an interpolation result.
IsValue(r, v) == r.kind = "finite" /\ r.num = v * r.den

\* interp1d sorts its samples by abscissa with a stable sort: the
\* permutation that puts xs in ascending order, ties in index order.
StableArgsort(xs) ==
    CHOOSE p \in [1..Len(xs) -> 1..Len(xs)] :
        /\ \A i, j \in 1..Len(xs) : i # j => p[i] # p[j]
        /\ \A i, j \in 1..Len(xs) :
              i < j => \/ xs[p[i]] < xs[p[j]]
                       \/ (xs[p[i]] = xs[p[j]] /\ p[i] < p[j])

\* numpy.searchsorted(xs, q) (side "left"): the number of entries below q.
SearchSorted(xs, q) == Cardinality({i \in 1..Len(xs) : xs[i] < q})

Clip(v, lo, hi) == IF v < lo THEN lo ELSE IF v > hi THEN hi ELSE v

\* slope * (q - x_lo) + y_lo with slope = (y_hi - y_lo) / (x_hi - x_lo), in
\* floating point where x_hi = x_lo, exact otherwise.
LinearSegment(x_lo, x_hi, y_lo, y_hi, q) ==
    IF x_hi # x_lo
    THEN Finite(y_lo * (x_hi - x_lo) + (y_hi - y_lo) * (q - x_lo), x_hi - x_lo)
    ELSE IF y_hi = y_lo \/ q = x_lo THEN NotFinite("nan")
    ELSE IF (y_hi > y_lo) = (q > x_lo) THEN NotFinite("inf")
    ELSE NotFinite("-inf")

\* CustomExpression.lin_interpol(x):
\* interp1d(coords_y, vals, bounds_error=False, fill_value="extrapolate")(x[1]).
\* x is the query point <<x0, x1>>; the segment is the one searchsorted
\* finds, clipped to the first and last segment (extrapolation).
lin_interpol(e, x) ==
    LET p == StableArgsort(e.coords_y)
        len == Len(e.coords_y)
        sx == [i \in 1..len |-> e.coords_y[p[i]]]
        sy == [i \in 1..len |-> e.vals[p[i]]]
        \* 0-based index of numpy, clipped to 1 .. len-1
        hi0 == Clip(SearchSorted(sx, x[2]), 1, len - 1)
        lo == hi0
        hi == hi0 + 1
    IN  LinearSegment(sx[lo], sx[hi], sy[lo], sy[hi], x[2])

\* CustomExpression.eval(value, x): value[0] = self.lin_interpol(x).
eval(e, x) == [strategy |-> "linear", value |-> lin_interpol(e, x)]

(***************************************************************************)
(* Config.  A JSON document is a function from the keys it holds to their  *)
(* values; data["key"] raises KeyError where the key is absent.            *)
(***************************************************************************)
None == "None"

\* The values of interface.interpolation_type a configuration file gives.
InterpolationTypes == {"rbf", "linear"}

TopLevelKeys == {"config_file_name", "participant_name", "interface"}
InterfaceKeys == {"coupling_mesh_name", "write_data_name", "read_data_name",
                  "interpolation_type"}

\* The value a document holds under a key other than interpolation_type.
JsonValue(key) ==
    CASE key = "config_file_name" -> "precice-config.xml"
      [] key = "participant_name" -> "Solver"
      [] key = "coupling_mesh_name" -> "Mesh"
      [] key = "write_data_name" -> "Flux"
      [] key = "read_data_name" -> "Temperature"

\* The document with the given top level keys other than "interface".
JsonTop(keys) == [k \in keys |-> JsonValue(k)]

\* The document that also holds an "interface" object with the given keys.
JsonWithInterface(keys, ikeys, it) ==
    [k \in keys \cup {"interface"} |->
        IF k = "interface"
        THEN [j \in ikeys |-> IF j = "interpolation_type" THEN it ELSE JsonValue(j)]
        ELSE JsonValue(k)]

\* Every document over these keys: any of them may be absent.
ConfigFiles ==
    {JsonTop(keys) : keys \in SUBSET (TopLevelKeys \ {"interface"})}
    \cup
    {JsonWithInterface(keys, ikeys, it) :
        keys \in SUBSET (TopLevelKeys \ {"interface"}),
        ikeys \in SUBSET (InterfaceKeys \ {"interpolation_type"}),
        it \in {None}}
    \cup
    {JsonWithInterface(keys, ikeys \cup {"interpolation_type"}, it) :
        keys \in SUBSET (TopLevelKeys \ {"interface"}),
        ikeys \in SUBSET (InterfaceKeys \ {"interpolation_type"}),
        it \in InterpolationTypes}

\* The documents of a run of the adapter: every name is given, the
\* interpolation type may be absent.
JsonDocuments ==
    {d \in ConfigFiles :
        /\ TopLevelKeys \subseteq DOMAIN d
        /\ InterfaceKeys \ {"interpolation_type"} \subseteq DOMAIN d["interface"]}

Has(data, key) == key \in DOMAIN data

\* data["interface"][key] can be read.
HasInterface(data, key) == Has(data, "interface") /\ Has(data["interface"], key)

\* os.path.join(folder, name)
PathJoin(name) == <<"folder", name>>

\* Config.__init__: every attribute is None before read_json is called.
ConfigAttributes ==
    [config_file_name |-> None, participant_name |-> None,
     coupling_mesh_name |-> None, read_data_name |-> None,
     write_data_name |-> None, interpolation_type |-> None]

\* A read_json in which an absent write_data_name is not caught.
read_json_write_name_required(data) ==
    IF /\ Has(data, "config_file_name") /\ Has(data, "participant_name")
       /\ HasInterface(data, "coupling_mesh_name")
       /\ HasInterface(data, "write_data_name")
       /\ HasInterface(data, "read_data_name")
    THEN [config |->
            [config_file_name |-> PathJoin(data["config_file_name"]),
             participant_name |-> data["participant_name"],
             coupling_mesh_name |-> data["interface"]["coupling_mesh_name"],
             read_data_name |-> data["interface"]["read_data_name"],
             write_data_name |-> data["interface"]["write_data_name"],
             interpolation_type |->
                IF HasInterface(data, "interpolation_type")
                THEN data["interface"]["interpolation_type"] ELSE None],
          fault |-> None]
    ELSE [config |-> ConfigAttributes, fault |-> "KeyError"]

\* Config.read_json: the attributes in the order they are assigned.  A
\* missing config_file_name, participant_name, coupling_mesh_name or
\* read_data_name raises KeyError and leaves what was assigned before; a
\* missing write_data_name or interpolation_type is caught and leaves None.
read_json(data) ==
    LET c0 == ConfigAttributes
        Fails(c) == [config |-> c, fault |-> "KeyError"]
    IN
    IF ~Has(data, "config_file_name") THEN Fails(c0)
    ELSE
    LET c1 == [c0 EXCEPT !.config_file_name = PathJoin(data["config_file_name"])]
    IN
    IF ~Has(data, "participant_name") THEN Fails(c1)
    ELSE
    LET c2 == [c1 EXCEPT !.participant_name = data["participant_name"]]
    IN
    IF ~HasInterface(data, "coupling_mesh_name") THEN Fails(c2)
    ELSE
    LET c3 == [c2 EXCEPT !.coupling_mesh_name = data["interface"]["coupling_mesh_name"]]
        c4 == [c3 EXCEPT !.write_data_name =
                  IF HasInterface(data, "write_data_name")
                  THEN data["interface"]["write_data_name"] ELSE None]
    IN
    IF ~HasInterface(data, "read_data_name") THEN Fails(c4)
    ELSE
    LET c5 == [c4 EXCEPT !.read_data_name = data["interface"]["read_data_name"]]
        c6 == [c5 EXCEPT !.interpolation_type =
                  IF HasInterface(data, "interpolation_type")
                  THEN data["interface"]["interpolation_type"] ELSE None]
    IN  [config |-> c6, fault |-> None]

(***************************************************************************)
(* The coordinator (self._interface).                                      *)
(***************************************************************************)
action_read_iteration_checkpoint == "read-iteration-checkpoint"
action_write_iteration_checkpoint == "write-iteration-checkpoint"
action_write_initial_data == "write-initial-data"

\* One call on the coordinator: its name, the action tag or None, the time
\* stamp or -1, the data block handed over or received or <<>>.
Call(name, tag, time, data) ==
    [call |-> name, tag |-> tag, time |-> time, data |-> data]

\* Blocks the coordinator delivers on a read of count vertices: the values
\* 1, 2, 3, ... of the scenarios of spec section 8, or the same value at
\* every vertex.
ReadArrays(count) == {[i \in 1..count |-> i], [i \in 1..count |-> 2]}

\* Points at which FEniCS evaluates the boundary expression.
QueryPoints == {<<x, y>> : x \in 0..1, y \in 0..3}

(***************************************************************************)
(* The record of the most recent invocation.                               *)
(***************************************************************************)
NoCall ==
    [op |-> "none",
     u_n |-> None, t |-> 0, n |-> 0,      \* the solver state passed in
     u_np1 |-> None, dt |-> 0,            \* advance: the other arguments
     max_dt |-> 0,                        \* advance: what advance(dt) answers
     readReq |-> FALSE,                   \* is_action_required(read checkpoint)
     writeReq |-> FALSE,                  \* is_action_required(write checkpoint)
     initReq |-> FALSE,                   \* is_action_required(write initial data)
     cpBefore |-> CheckpointEmpty,        \* the checkpoint when the call began
     finalizedBefore |-> FALSE,           \* finalize() had been called before
     restoresBefore |-> 0,                \* advance: the restoring invocations
                                          \*   that directly preceded this one
     calls |-> <<>>,                      \* the calls made on the coordinator
     restored |-> FALSE,                  \* solver_state_has_been_restored
     fault |-> None,                      \* the exception that ended the call
     ret |-> <<>>,                        \* <<the value returned>>, if any
     query |-> <<>>,                      \* eval: the point
     value |-> <<>>,                      \* eval: <<the value>>
     strategy |-> None]                   \* eval: the interpolation used

(***************************************************************************)
(* Adapter: the checkpointing helpers.  Each gives the state it leaves and *)
(* the calls it makes on the coordinator.                                  *)
(***************************************************************************)
\* A restore that takes over the field and the time but keeps the step index.
restore_keeping_step_index(cp, state) ==
    [state |-> [CheckpointGetState(cp) EXCEPT !.n = state.n],
     checkpoint |-> cp,
     calls |-> <<Call("fulfilled_action", action_read_iteration_checkpoint, -1, <<>>)>>]

\* A restore that leaves the solver's time where the sub-iteration took it.
restore_keeping_time(cp, state) ==
    [state |-> SolverState(CheckpointGetState(cp).u, state.t, CheckpointGetState(cp).n),
     checkpoint |-> cp,
     calls |-> <<Call("fulfilled_action", action_read_iteration_checkpoint, -1, <<>>)>>]

\* A restore that empties the store.
restore_consuming_checkpoint(cp, state) ==
    [state |-> StateUpdate(state, CheckpointGetState(cp)),
     checkpoint |-> CheckpointEmpty,
     calls |-> <<Call("fulfilled_action", action_read_iteration_checkpoint, -1, <<>>)>>]

\* Adapter._restore_solver_state_from_checkpoint (the store is not empty).
restore_solver_state_from_checkpoint(cp, state) ==
    [state |-> StateUpdate(state, CheckpointGetState(cp)),
     checkpoint |-> cp,
     calls |-> <<Call("fulfilled_action", action_read_iteration_checkpoint, -1, <<>>)>>]

\* An advance that counts the step index down.
advance_counting_down(cp, state, u_np1, dt) ==
    StateUpdate(state, SolverState(u_np1, state.t + dt, CheckpointGetState(cp).n - 1))

\* Adapter._advance_solver_state (the store is not empty): the new step
\* index is the checkpoint's plus one.
advance_solver_state(cp, state, u_np1, dt) ==
    StateUpdate(state, SolverState(u_np1, state.t + dt, CheckpointGetState(cp).n + 1))

\* A save that is not acknowledged to the coordinator.
save_unacknowledged(cp, state) ==
    [checkpoint |-> CheckpointWrite(cp, state), calls |-> <<>>]

\* A save that acknowledges the action and writes nothing.
save_acknowledged_only(cp, state) ==
    [checkpoint |-> cp,
     calls |-> <<Call("fulfilled_action", action_write_iteration_checkpoint, -1, <<>>)>>]

\* A save that writes only into an empty store.
save_only_when_empty(cp, state) ==
    [checkpoint |-> IF CheckpointIsEmpty(cp) THEN CheckpointWrite(cp, state) ELSE cp,
     calls |-> <<Call("fulfilled_action", action_write_iteration_checkpoint, -1, <<>>)>>]

\* Adapter._save_solver_state_to_checkpoint.
save_solver_state_to_checkpoint(cp, state) ==
    [checkpoint |-> CheckpointWrite(cp, state),
     calls |-> <<Call("fulfilled_action", action_write_iteration_checkpoint, -1, <<>>)>>]


\* The read issued right after the coordinator's advance, before the
\* checkpoint actions are dealt with.
read_before_checkpointing(calls, state, dt, rd) ==
    SubSeq(calls, 1, 2) \o <<Call("read_block_scalar_data", None, state.t + dt, rd)>>
        \o SubSeq(calls, 3, Len(calls))

\* Adapter.advance: _, t, n = state.get_state(), then read_block_scalar_data
\* at t + dt, after the calls made so far.
read_after_update(calls, state, dt, rd) ==
    calls \o <<Call("read_block_scalar_data", None, state.t + dt, rd)>>

\* The restoring invocations that returned, one directly after the other,
\* up to and including the most recent invocation.
ConsecutiveRestores ==
    IF last.op = "advance" /\ last.restored /\ last.ret # <<>>
    THEN last.restoresBefore + 1 ELSE 0

\* The assertion left out.
AssertionNeverFails(writeReq, restored) == FALSE

\* Adapter.advance, where the write checkpoint action is required:
\* assert (not solver_state_has_been_restored)  # avoids invalid control flow
AssertionFails(writeReq, restored) == writeReq /\ restored

(***************************************************************************)
(* Adapter.__init__: the configuration is read, nothing else is set; the   *)
(* checkpoint is empty.  u_n, t, n are the solver's initial state.         *)
(***************************************************************************)
InitFields == {"ua"}

Init ==
    /\ json = <<>>
    /\ config \in {read_json(d).config : d \in JsonDocuments}
    /\ mesh \in Meshes
    /\ phase = "constructed"
    /\ finalized = FALSE
    /\ checkpoint = CheckpointEmpty
    /\ u_n \in InitFields
    /\ t \in InitTimes
    /\ n \in InitSteps
    /\ vertices = <<>>
    /\ write_data = <<>>
    /\ read_data = <<>>
    /\ expr = <<>>
    /\ saves = <<>>
    /\ last = NoCall

\* What an invocation leaves: the adapter's attributes, the solver's field
\* (updated by reference) and the record of the invocation.
Outcome(l) ==
    [checkpoint |-> checkpoint, u_n |-> u_n, vertices |-> vertices,
     write_data |-> write_data, read_data |-> read_data, expr |-> expr,
     saves |-> saves, last |-> l]

\* The invocation ends with an exception after the calls made so far.
Raise(o, calls, restored, fault) ==
    [o EXCEPT !.last = [@ EXCEPT !.calls = calls, !.restored = restored,
                                 !.fault = fault]]

\* The invocation returns.
Return(o, calls, restored, value) ==
    [o EXCEPT !.last = [@ EXCEPT !.calls = calls, !.restored = restored,
                                 !.ret = <<value>>]]

\* The variables after an invocation with outcome o; an exception is not
\* caught by the solver and ends the run.
Leave(o) ==
    /\ checkpoint' = o.checkpoint
    /\ u_n' = o.u_n
    /\ vertices' = o.vertices
    /\ write_data' = o.write_data
    /\ read_data' = o.read_data
    /\ expr' = o.expr
    /\ saves' = o.saves
    /\ last' = o.last
    /\ phase' = IF o.last.fault # None THEN "crashed"
                ELSE IF o.last.op = "initialize" THEN "initialized"
                ELSE phase

(***************************************************************************)
(* Adapter.advance(write_function, u_np1, u_n, t, dt, n), with the         *)
(* coordinator's answers: max_dt from advance(dt), readReq and writeReq    *)
(* from is_action_required, rd the block read_block_scalar_data delivers.  *)
(***************************************************************************)
advance(write_function, u_np1, dt, max_dt, readReq, writeReq, rd) ==
    LET state0 == SolverState(u_n, t, n)
        o0 == Outcome([NoCall EXCEPT
                  !.op = "advance", !.u_n = u_n, !.t = t, !.n = n,
                  !.u_np1 = u_np1, !.dt = dt, !.max_dt = max_dt, !.readReq = readReq,
                  !.writeReq = writeReq, !.cpBefore = checkpoint,
                  !.finalizedBefore = finalized,
                  !.restoresBefore = ConsecutiveRestores])
    IN
    \* extract_coupling_boundary_coordinates: no coupling subdomain yet
    IF vertices = <<>> THEN Raise(o0, <<>>, FALSE, "Exception")
    \* convert_fenics_to_precice: "Cannot handle data type"
    ELSE IF ~IsDolfinFunction(write_function) THEN Raise(o0, <<>>, FALSE, "Exception")
    ELSE
    LET coords == extract_coupling_boundary_coordinates(mesh)
        wd == convert_fenics_to_precice(write_function, mesh)
        calls1 == <<Call("write_block_scalar_data", None, t + dt, wd),
                    Call("advance", None, dt, <<>>),
                    Call("is_action_required", action_read_iteration_checkpoint, -1, <<>>)>>
        o1 == [o0 EXCEPT !.write_data = wd]
    IN
    \* both branches read the checkpoint's state
    IF CheckpointIsEmpty(checkpoint) THEN Raise(o1, calls1, FALSE, "NoCheckpointError")
    ELSE
    LET solver_state_has_been_restored == readReq
        rs == IF readReq
              THEN restore_solver_state_from_checkpoint(checkpoint, state0)
              ELSE [state |-> advance_solver_state(checkpoint, state0, u_np1, dt),
                    checkpoint |-> checkpoint,
                    calls |-> <<>>]
        state1 == rs.state
        calls2 == calls1 \o rs.calls \o
                  <<Call("is_action_required", action_write_iteration_checkpoint, -1, <<>>)>>
        o2 == [o1 EXCEPT !.u_n = state1.u, !.checkpoint = rs.checkpoint]
    IN
    IF AssertionFails(writeReq, solver_state_has_been_restored)
    THEN Raise(o2, calls2, solver_state_has_been_restored, "AssertionError")
    ELSE
    LET sv == IF writeReq
              THEN save_solver_state_to_checkpoint(rs.checkpoint, state1)
              ELSE [checkpoint |-> rs.checkpoint, calls |-> <<>>]
        precice_step_complete == writeReq
        calls3 == read_after_update(calls2 \o sv.calls, state1, dt, rd)
        o3 == [o2 EXCEPT !.checkpoint = sv.checkpoint,
                         !.saves = IF writeReq THEN Append(saves, state1) ELSE saves,
                         !.read_data = rd]
    IN
    \* self._coupling_bc_expression is None until a boundary condition is created
    IF expr = <<>> THEN Raise(o3, calls3, solver_state_has_been_restored, "AttributeError")
    ELSE Return([o3 EXCEPT !.expr = <<update_boundary_data(rd, coords.x, coords.y)>>],
                calls3, solver_state_has_been_restored,
                [t |-> state1.t, n |-> state1.n,
                 complete |-> precice_step_complete, max_dt |-> max_dt])

\* The solver calls advance with its current (u_n, t, n) and takes over the
\* (t, n) returned.
Advance ==
    /\ phase \in {"constructed", "initialized"}
    /\ ~CheckpointIsEmpty(checkpoint) => CheckpointGetState(checkpoint).n < MaxStep
    /\ \E write_function \in WriteFunctions, u_np1 \in Fields, dt \in Dts, max_dt \in Dts,
          readReq \in BOOLEAN, writeReq \in BOOLEAN :
          /\ t + dt <= MaxTime
          /\ readReq => ConsecutiveRestores < MaxRestores
          /\ \E rd \in ReadArrays(IF vertices = <<>> THEN 0 ELSE vertices[1].n) :
                \E o \in {advance(write_function, u_np1, dt, max_dt, readReq, writeReq, rd)} :
                    /\ Leave(o)
                    /\ t' = IF o.last.ret # <<>> THEN o.last.ret[1].t ELSE t
                    /\ n' = IF o.last.ret # <<>> THEN o.last.ret[1].n ELSE n
    /\ UNCHANGED <<json, config, mesh, finalized>>


(***************************************************************************)
(* Adapter.initialize(coupling_subdomain, mesh, read_field, write_field,   *)
(* u_n, t, n), with the coordinator's answers: tau from initialize(),      *)
(* initReq and writeReq from is_action_required, readAvail from            *)
(* is_read_data_available, rd the block a read delivers.  n_substeps is    *)
(* what the configuration object answers to get_n_substeps().              *)
(***************************************************************************)
\* numpy's flatten('F') of the stacked rows: vertex by vertex.
FlattenF(rows, count) ==
    [k \in 1..(Len(rows) * count) |->
        rows[((k - 1) % Len(rows)) + 1][((k - 1) \div Len(rows)) + 1]]

\* Adapter.set_coupling_mesh: the vertices are extracted and registered; the
\* coordinator fills in one handle per vertex, in the order given.
set_coupling_mesh(m) ==
    LET e == extract_coupling_boundary_vertices(m)
    IN  [rows |-> e.rows, n |-> e.n,
         vertex_ids |-> [i \in 1..e.n |-> i - 1]]

Min(a, b) == IF a <= b THEN a ELSE b

initialize(read_field, write_field, tau, n_substeps, initReq, readAvail, writeReq, rd) ==
    LET v == set_coupling_mesh(mesh)
        calls0 == <<Call("set_mesh_vertices", None, -1, FlattenF(v.rows, v.n))>>
        o0 == [Outcome([NoCall EXCEPT
                  !.op = "initialize", !.u_n = u_n, !.t = t, !.n = n,
                  !.initReq = initReq, !.writeReq = writeReq,
                  !.cpBefore = checkpoint, !.finalizedBefore = finalized])
               EXCEPT !.vertices = <<v>>]
    IN
    \* set_read_field, set_write_field: convert_fenics_to_precice raises
    IF ~IsDolfinFunction(read_field) THEN Raise(o0, calls0, FALSE, "Exception")
    ELSE IF ~IsDolfinFunction(write_field)
    THEN Raise([o0 EXCEPT !.read_data = convert_fenics_to_precice(read_field, mesh)],
               calls0, FALSE, "Exception")
    ELSE
    LET rd0 == convert_fenics_to_precice(read_field, mesh)
        wd == convert_fenics_to_precice(write_field, mesh)
        fenics_dt == tau \div n_substeps
        dt == Min(fenics_dt, tau)
        calls1 == calls0 \o
            <<Call("initialize", None, -1, <<>>),
              Call("initialize_waveforms", None, -1, <<>>),
              Call("is_action_required", action_write_initial_data, -1, <<>>)>>
        calls2 == calls1 \o
            (IF initReq
             THEN <<Call("write_block_scalar_data", None, t, wd),
                    Call("fulfilled_action", action_write_initial_data, -1, <<>>)>>
             ELSE <<>>) \o
            <<Call("initialize_data", None, -1, <<>>),
              Call("is_read_data_available", None, -1, <<>>)>>
        calls3 == calls2 \o
            (IF readAvail
             THEN <<Call("read_block_scalar_data", None, t + dt, rd)>>
             ELSE <<>>) \o
            <<Call("is_action_required", action_write_iteration_checkpoint, -1, <<>>)>>
        initial_state == SolverState(u_n, t, n)
        sv == IF writeReq
              THEN save_solver_state_to_checkpoint(checkpoint, initial_state)
              ELSE [checkpoint |-> checkpoint, calls |-> <<>>]
    IN  Return([o0 EXCEPT !.read_data = IF readAvail THEN rd ELSE rd0,
                          !.write_data = wd,
                          !.checkpoint = sv.checkpoint,
                          !.saves = IF writeReq THEN Append(saves, initial_state)
                                    ELSE saves],
               calls3 \o sv.calls, FALSE, dt)

\* Step sizes the coordinator announces, and the substeps configured.
Taus == {2}
Substeps == {1, 2}

\* initialize is called once, from the solver.
Initialize ==
    /\ phase = "constructed"
    /\ \E read_field \in WriteFunctions, write_field \in WriteFunctions,
          tau \in Taus, n_substeps \in Substeps,
          initReq \in BOOLEAN, readAvail \in BOOLEAN, writeReq \in BOOLEAN,
          rd \in ReadArrays(extract_coupling_boundary_vertices(mesh).n) :
          \E o \in {initialize(read_field, write_field, tau, n_substeps,
                              initReq, readAvail, writeReq, rd)} : Leave(o)
    /\ UNCHANGED <<json, config, mesh, finalized, t, n>>

(***************************************************************************)
(* Adapter.create_coupling_boundary_condition (by way of                   *)
(* create_coupling_dirichlet_boundary_condition or ..._neumann_...): a new *)
(* CustomExpression is bound to the read data at the boundary vertices.    *)
(***************************************************************************)
create_coupling_boundary_condition ==
    LET c == extract_coupling_boundary_coordinates(mesh)
    IN  <<update_boundary_data(read_data, c.x, c.y)>>

CreateBoundaryCondition ==
    /\ phase = "initialized"
    /\ expr' = create_coupling_boundary_condition
    /\ last' = [NoCall EXCEPT !.op = "create_coupling_boundary_condition",
                              !.cpBefore = checkpoint,
                              !.finalizedBefore = finalized]
    /\ UNCHANGED <<json, config, mesh, phase, finalized, checkpoint, u_n, t, n,
                   vertices, write_data, read_data, saves>>

(***************************************************************************)
(* CustomExpression.eval, called by FEniCS with a point of the boundary.   *)
(***************************************************************************)
Eval ==
    /\ phase = "initialized"
    /\ expr # <<>>
    /\ \E x \in QueryPoints :
          LET r == eval(expr[1], x)
          IN  last' = [NoCall EXCEPT !.op = "eval",
                                     !.cpBefore = checkpoint,
                                     !.finalizedBefore = finalized,
                                     !.query = x,
                                     !.value = <<r.value>>,
                                     !.strategy = r.strategy]
    /\ UNCHANGED <<json, config, mesh, phase, finalized, checkpoint, u_n, t, n,
                   vertices, write_data, read_data, expr, saves>>

(***************************************************************************)
(* Adapter.finalize: self._interface.finalize(), and nothing else.         *)
(***************************************************************************)
Finalize ==
    /\ phase \in {"constructed", "initialized"}
    /\ ~finalized
    /\ finalized' = TRUE
    /\ last' = [NoCall EXCEPT !.op = "finalize",
                              !.cpBefore = checkpoint,
                              !.calls = <<Call("finalize", None, -1, <<>>)>>]
    /\ UNCHANGED <<json, config, mesh, phase, checkpoint, u_n, t, n, vertices,
                   write_data, read_data, expr, saves>>

(***************************************************************************)
(* Config.__init__(adapter_config_filename): the attributes are None, then *)
(* read_json reads the file.  An exception leaves no Config object.        *)
(***************************************************************************)
ConfigInit ==
    /\ json \in ConfigFiles
    /\ config = ConfigAttributes
    /\ mesh \in Meshes
    /\ phase = "created"
    /\ finalized = FALSE
    /\ checkpoint = CheckpointEmpty
    /\ u_n \in InitFields
    /\ t \in InitTimes
    /\ n \in InitSteps
    /\ vertices = <<>>
    /\ write_data = <<>>
    /\ read_data = <<>>
    /\ expr = <<>>
    /\ saves = <<>>
    /\ last = NoCall

LoadConfig ==
    /\ phase = "created"
    /\ \E r \in {read_json(json)} :
          /\ config' = r.config
          /\ last' = [NoCall EXCEPT !.op = "read_json", !.fault = r.fault]
          /\ phase' = IF r.fault # None THEN "crashed" ELSE "constructed"
    /\ UNCHANGED <<json, mesh, finalized, checkpoint, u_n, t, n, vertices,
                   write_data, read_data, expr, saves>>

ConfigNext == LoadConfig

ConfigSpec == ConfigInit /\ [][ConfigNext]_vars

Next ==
    \/ Initialize
    \/ CreateBoundaryCondition
    \/ Advance
    \/ Eval
    \/ Finalize

Spec == Init /\ [][Next]_vars


(***************************************************************************)
(* Properties.                                                             *)
(***************************************************************************)
\* The most recent invocation was an advance that got past the sampling of
\* the write field (its first call on the coordinator was made).
AdvanceBegan == last.op = "advance" /\ last.calls # <<>>

\* The most recent invocation was an advance that returned.
AdvanceReturned == last.op = "advance" /\ last.ret # <<>>

Returned == last.ret[1]

Fulfilled(tag) ==
    \E i \in 1..Len(last.calls) :
        last.calls[i].call = "fulfilled_action" /\ last.calls[i].tag = tag

\* C1: an advance that returns without a restore returns the step index it
\* was called with plus one, whatever the checkpoint holds.
C1_StepIndexIsCallersPlusOne ==
    (AdvanceReturned /\ ~last.readReq) => Returned.n = last.n + 1

\* C2: an advance in which the read checkpoint action is required and the
\* write checkpoint action is not, with the store holding C, leaves the
\* solver's field, time and step index equal to C's, returns C's time and
\* step index and step_fully_converged = False, leaves the store as it was
\* and does not adopt u_np1.
C2_RestoreYieldsCheckpoint ==
    (AdvanceReturned /\ last.readReq /\ ~last.writeReq) =>
        /\ last.cpBefore # CheckpointEmpty
        /\ LET C == CheckpointGetState(last.cpBefore)
           IN  /\ u_n = C.u /\ t = C.t /\ n = C.n
               /\ Returned.t = C.t /\ Returned.n = C.n
               /\ Returned.complete = FALSE
               /\ last.restored
               /\ (C.u # last.u_np1 => u_n # last.u_np1)
        /\ checkpoint = last.cpBefore

\* C2, its case: a restore that changes the field, the time and the step
\* index of the solver, with a u_np1 that differs from the checkpoint's field.
C2_Witness ==
    /\ AdvanceReturned /\ last.readReq /\ ~last.writeReq
    /\ last.u_n # u_n /\ last.t # t /\ last.n # n
    /\ last.u_np1 # u_n

\* C3: an advance called with (u_np1, t, dt, n) in which the write
\* checkpoint action is required and the read checkpoint action is not
\* leaves the store holding (u_np1, t + dt, n + 1) and returns
\* step_fully_converged = True; an advance in which the write checkpoint
\* action is not required returns False and does not write the store.
C3_WriteCheckpointSavesNextState ==
    /\ (AdvanceReturned /\ last.writeReq /\ ~last.readReq) =>
          /\ checkpoint =
                CheckpointWrite(last.cpBefore,
                    SolverState(last.u_np1, last.t + last.dt, last.n + 1))
          /\ Returned.complete = TRUE
    /\ (AdvanceReturned /\ ~last.writeReq) =>
          /\ Returned.complete = FALSE
          /\ checkpoint = last.cpBefore

\* C4: with no checkpoint action required at any point of the run (the store
\* was never written) an advance at time t with step dt, the coordinator's
\* advance answering max_dt = dt, completes without error and returns
\* step_fully_converged = False, t + dt and dt.  (The advance is one of a
\* run set up as intended: the write field is a dolfin.Function and the
\* boundary condition has been created.)
C4_AdvanceWithoutCheckpointActions ==
    (/\ AdvanceBegan
     /\ expr # <<>>
     /\ saves = <<>>
     /\ ~last.readReq /\ ~last.writeReq
     /\ last.max_dt = last.dt) =>
        /\ last.fault = None
        /\ last.ret # <<>>
        /\ Returned.complete = FALSE
        /\ Returned.t = last.t + last.dt
        /\ Returned.max_dt = last.dt

\* C5, as stated: an advance in which both the read and the write
\* checkpoint action are required ends with the failed assertion (the
\* protocol consistency fault), returns nothing, does not write the store
\* and does not report the write checkpoint action fulfilled.
C5_BothRequiredFailsAssertion ==
    (AdvanceBegan /\ last.readReq /\ last.writeReq) =>
        /\ last.fault = "AssertionError"
        /\ last.ret = <<>>
        /\ checkpoint = last.cpBefore
        /\ ~Fulfilled(action_write_iteration_checkpoint)

\* C5, amended: an advance in which both the read and the write checkpoint
\* action are required ends with a fatal fault, which is the failed
\* assertion when the store holds a state and the failure of the restore
\* (no checkpoint) when the store is empty; it returns nothing, does not
\* write the store and does not report the write checkpoint action
\* fulfilled, and the run ends.
C5_BothRequiredIsFatal ==
    (AdvanceBegan /\ last.readReq /\ last.writeReq) =>
        /\ last.fault = IF CheckpointIsEmpty(last.cpBefore)
                        THEN "NoCheckpointError" ELSE "AssertionError"
        /\ last.ret = <<>>
        /\ checkpoint = last.cpBefore
        /\ ~Fulfilled(action_write_iteration_checkpoint)
        /\ phase = "crashed"

\* C5, its case: both actions required with a state in the store, so that
\* the restore has been done and the assertion is what stops the save.
C5_Witness ==
    /\ AdvanceBegan /\ last.readReq /\ last.writeReq
    /\ ~CheckpointIsEmpty(last.cpBefore)
    /\ last.restored
    /\ Fulfilled(action_read_iteration_checkpoint)

\* C6: the store holds at most one state; it is empty as long as no save was
\* made, and otherwise holds exactly the state of the most recent save; a
\* restore hands back that state and none saved earlier.
C6_CheckpointIsMostRecentSave ==
    /\ Len(checkpoint) <= 1
    /\ checkpoint = IF saves = <<>> THEN CheckpointEmpty
                    ELSE <<saves[Len(saves)]>>
    /\ (last.op = "advance" /\ last.restored) =>
          /\ saves # <<>>
          /\ u_n = saves[Len(saves)].u
          /\ last.ret # <<>> =>
                Returned.t = saves[Len(saves)].t /\ Returned.n = saves[Len(saves)].n

\* C6, its case: a restore after a second save that differs from the
\* first in every component.
C6_Witness ==
    /\ Len(saves) >= 2
    /\ saves[1].u # saves[Len(saves)].u
    /\ saves[1].t # saves[Len(saves)].t
    /\ saves[1].n # saves[Len(saves)].n
    /\ AdvanceReturned /\ last.restored

\* C7: an advance invoked after finalize() fails with LifecycleError and
\* makes no call on the coordinator, changes neither the solver's state nor
\* the store.  (Stated of the invocations whose arguments advance accepts:
\* one that is refused for its write field or for the missing coupling
\* mesh makes no call either.)
C7_AdvanceAfterFinalizeFails ==
    (last.op = "advance" /\ last.finalizedBefore /\ last.fault # "Exception") =>
        /\ last.fault = "LifecycleError"
        /\ last.calls = <<>>
        /\ last.ret = <<>>
        /\ u_n = last.u_n /\ t = last.t /\ n = last.n
        /\ checkpoint = last.cpBefore

\* C8: the solver passing on the (time, step index) each advance returns,
\* an advance that returns without a restore returns a step index not below
\* the one it was called with (the one the invocation before returned), and
\* an advance that returns after a restore returns the step index of the
\* checkpoint.
C8_StepIndexNeverDecreasesUnlessRestored ==
    AdvanceReturned =>
        IF last.restored
        THEN Returned.n = CheckpointGetState(last.cpBefore).n
        ELSE Returned.n >= last.n

\* C8, its case: a second advance without restore in the same window (the
\* step index passed in is already ahead of the checkpoint's).
C8_Witness ==
    /\ AdvanceReturned /\ ~last.restored
    /\ last.n > CheckpointGetState(last.cpBefore).n

\* C9: an evaluation of the boundary expression uses the interpolation the
\* configuration selects: radial basis functions where interpolation_type
\* is "rbf", 1-D linear where it is "linear".
C9_StrategyFollowsConfiguration ==
    last.op = "eval" =>
        /\ config.interpolation_type = "rbf" => last.strategy = "rbf"
        /\ config.interpolation_type = "linear" => last.strategy = "linear"

\* C10: an evaluation of the boundary expression at the coordinates of
\* vertex i gives the value bound to vertex i, exactly, also where vertices
\* share their y coordinate.
C10_RoundTripAtVertices ==
    last.op = "eval" =>
        \A i \in 1..Len(expr[1].vals) :
            (expr[1].coords_x[i] = last.query[1] /\ expr[1].coords_y[i] = last.query[2])
                => IsValue(last.value[1], expr[1].vals[i])

\* The most recent invocation was a read_json.
ConfigRead == last.op = "read_json"

\* C11, as stated: loading succeeds exactly when participant_name,
\* coupling_mesh_name and read_data_name are present; it then gives None for
\* an absent write_data_name or interpolation_type and the document's value
\* for every field that is present; otherwise it fails (KeyError, the
\* configuration error).
C11_LoadsIffThreeNamesPresent ==
    ConfigRead =>
        /\ last.fault = None <=>
              (/\ Has(json, "participant_name")
               /\ HasInterface(json, "coupling_mesh_name")
               /\ HasInterface(json, "read_data_name"))
        /\ last.fault # None => last.fault = "KeyError"

\* C11, amended: loading succeeds exactly when config_file_name,
\* participant_name, coupling_mesh_name and read_data_name are present; it
\* then gives None for an absent write_data_name or interpolation_type,
\* without error, and the document's value for every field that is
\* present; otherwise it fails with KeyError.
C11_LoadsIffRequiredPresent ==
    ConfigRead =>
        /\ last.fault = None <=>
              (/\ Has(json, "config_file_name")
               /\ Has(json, "participant_name")
               /\ HasInterface(json, "coupling_mesh_name")
               /\ HasInterface(json, "read_data_name"))
        /\ last.fault # None => last.fault = "KeyError" /\ phase = "crashed"
        /\ last.fault = None =>
              /\ config.config_file_name = PathJoin(json["config_file_name"])
              /\ config.participant_name = json["participant_name"]
              /\ config.coupling_mesh_name = json["interface"]["coupling_mesh_name"]
              /\ config.read_data_name = json["interface"]["read_data_name"]
              /\ config.write_data_name =
                    IF HasInterface(json, "write_data_name")
                    THEN json["interface"]["write_data_name"] ELSE None
              /\ config.interpolation_type =
                    IF HasInterface(json, "interpolation_type")
                    THEN json["interface"]["interpolation_type"] ELSE None

\* C11, its case: a document without write_data_name, with an interpolation
\* type, has been loaded.
C11_Witness ==
    /\ ConfigRead /\ last.fault = None
    /\ ~HasInterface(json, "write_data_name")
    /\ config.write_data_name = None
    /\ config.interpolation_type = "rbf"
    /\ config.read_data_name = "Temperature"

\* The block of the write_block_scalar_data call of the most recent advance.
WrittenBlock == last.calls[1].data

\* The vertices registered by set_coupling_mesh.
Registered == vertices[1]

CheckpointingCalls ==
    (IF last.readReq
     THEN <<Call("fulfilled_action", action_read_iteration_checkpoint, -1, <<>>)>>
     ELSE <<>>)
    \o <<Call("is_action_required", action_write_iteration_checkpoint, -1, <<>>)>>
    \o (IF last.writeReq
        THEN <<Call("fulfilled_action", action_write_iteration_checkpoint, -1, <<>>)>>
        ELSE <<>>)

\* The time of the solver state once the advance has restored or advanced it.
UpdatedTime ==
    IF last.readReq THEN CheckpointGetState(last.cpBefore).t ELSE last.t + last.dt

\* C13: an advance that returns has made, in this order, the write of
\* boundary data at t + dt, advance(dt), the query for the read checkpoint
\* action with its acknowledgement when required, the query for the write
\* checkpoint action with its acknowledgement when required, and last the
\* read of boundary data at the updated state's time plus dt; the state it
\* returns is the updated one and the interpolant holds the block read.
C13_InteractionsInFixedOrder ==
    AdvanceReturned =>
        /\ last.calls =
              <<Call("write_block_scalar_data", None, last.t + last.dt, write_data),
                Call("advance", None, last.dt, <<>>),
                Call("is_action_required", action_read_iteration_checkpoint, -1, <<>>)>>
              \o CheckpointingCalls
              \o <<Call("read_block_scalar_data", None, UpdatedTime + last.dt, read_data)>>
        /\ Returned.t = UpdatedTime
        /\ t = UpdatedTime
        /\ expr # <<>> /\ expr[1].vals = read_data

\* C13, its case: an advance from time 1 with dt = 2 saved a checkpoint and
\* then read at time 5.
C13_Witness ==
    /\ AdvanceReturned
    /\ last.writeReq /\ last.t = 1 /\ last.dt = 2
    /\ Len(last.calls) = 6
    /\ last.calls[6].call = "read_block_scalar_data"
    /\ last.calls[6].time = 5

\* The state the checkpoint held when the most recent invocation began.
C == CheckpointGetState(last.cpBefore)

\* The most recent invocation was entered with the solver at the checkpoint.
EnteredAtCheckpoint == SolverState(last.u_n, last.t, last.n) = C

\* C14: an advance with the write checkpoint action required and the read
\* checkpoint action not, entered with the solver at the checkpoint C,
\* directly or after any number of restoring advances, returns C's time
\* plus dt and C's step index plus one, and the store then holds
\* (u_np1, t_c + dt, n_c + 1).
C14_SubIterationsDoNotAccumulate ==
    (AdvanceReturned /\ last.writeReq /\ ~last.readReq
        /\ (EnteredAtCheckpoint \/ last.restoresBefore > 0)) =>
        /\ EnteredAtCheckpoint
        /\ Returned.t = C.t + last.dt
        /\ Returned.n = C.n + 1
        /\ Returned.complete
        /\ checkpoint = <<SolverState(last.u_np1, C.t + last.dt, C.n + 1)>>
        /\ SolverState(u_n, t, n) = CheckpointGetState(checkpoint)

\* C14, its case: two restoring advances, then the converged one, from a
\* checkpoint that is not the initial one.
C14_Witness ==
    /\ AdvanceReturned /\ last.writeReq /\ ~last.readReq
    /\ last.restoresBefore = 2
    /\ C.n = 1 /\ C.t = 1
    /\ Returned.n = 2 /\ Returned.t = 2

\* C14, the case without sub-iterations: the converged advance directly
\* after the save of the checkpoint.
C14_WitnessDirect ==
    /\ AdvanceReturned /\ last.writeReq /\ ~last.readReq
    /\ last.restoresBefore = 0 /\ EnteredAtCheckpoint
    /\ Len(saves) = 3

\* The most recent invocation was an advance that restored the solver state.
Restoring == last.op = "advance" /\ last.restored

\* C15: an advance that restores leaves the store exactly as it was, whether
\* it returns or not, and the state it restores is the stored one; directly
\* after another restoring advance it yields the state that one yielded.
C15_RestoreIsNonDestructive ==
    Restoring =>
        /\ checkpoint = last.cpBefore
        /\ ~CheckpointIsEmpty(checkpoint)
        /\ u_n = CheckpointGetState(checkpoint).u
        /\ AdvanceReturned =>
              /\ SolverState(u_n, t, n) = CheckpointGetState(checkpoint)
              /\ saves = <<>> \/ checkpoint = <<saves[Len(saves)]>>
              /\ last.restoresBefore > 0 =>
                    SolverState(u_n, t, n) = SolverState(last.u_n, last.t, last.n)

\* C15, its case: the second of two restoring advances in a row, from a
\* checkpoint saved by an advance.
C15_Witness ==
    /\ Restoring /\ AdvanceReturned
    /\ last.restoresBefore = 1
    /\ Len(saves) = 2
    /\ n = 1

\* The positions in the calls of the most recent invocation.
Queries(tag) ==
    {i \in 1..Len(last.calls) :
        last.calls[i].call = "is_action_required" /\ last.calls[i].tag = tag}

Acknowledgements(tag) ==
    {i \in 1..Len(last.calls) :
        last.calls[i].call = "fulfilled_action" /\ last.calls[i].tag = tag}

\* The action tag was acknowledged once, after its query, if required is
\* true, and not at all otherwise.
AcknowledgedIff(tag, required) ==
    /\ Cardinality(Acknowledgements(tag)) = IF required THEN 1 ELSE 0
    /\ \A i \in Acknowledgements(tag) : \E q \in Queries(tag) : q < i

InitializeReturned == last.op = "initialize" /\ last.ret # <<>>

\* C16: an advance that returns has acknowledged the read checkpoint action
\* once if it was required and not otherwise, likewise the write checkpoint
\* action, and never the write-initial-data action; an initialize that
\* returns has acknowledged the write-initial-data and write checkpoint
\* actions in that way and never the read checkpoint action.  When an
\* acknowledgement has been made its operation has been performed: the
\* solver holds the stored state, the store holds the state saved, the
\* initial block was written just before the acknowledgement.
C16_AcknowledgementMatchesRequirement ==
    /\ AdvanceReturned =>
          /\ AcknowledgedIff(action_read_iteration_checkpoint, last.readReq)
          /\ AcknowledgedIff(action_write_iteration_checkpoint, last.writeReq)
          /\ Acknowledgements(action_write_initial_data) = {}
          /\ last.readReq => SolverState(u_n, t, n) = CheckpointGetState(last.cpBefore)
          /\ last.writeReq =>
                checkpoint = <<SolverState(last.u_np1, Returned.t, Returned.n)>>
    /\ InitializeReturned =>
          /\ AcknowledgedIff(action_write_initial_data, last.initReq)
          /\ AcknowledgedIff(action_write_iteration_checkpoint, last.writeReq)
          /\ Acknowledgements(action_read_iteration_checkpoint) = {}
          /\ \A i \in Acknowledgements(action_write_initial_data) :
                last.calls[i - 1] =
                    Call("write_block_scalar_data", None, last.t, write_data)
          /\ last.writeReq =>
                checkpoint = <<SolverState(last.u_n, last.t, last.n)>>

\* C16, its case: an initialize that acknowledged both of its actions has
\* been followed by an advance that acknowledged the write checkpoint
\* action and not the read checkpoint action.
C16_Witness ==
    /\ AdvanceReturned
    /\ Acknowledgements(action_write_iteration_checkpoint) = {5}
    /\ Acknowledgements(action_read_iteration_checkpoint) = {}
    /\ Len(saves) = 2

\* C16, the other operation: an initialize that acknowledged the
\* write-initial-data action and not the write checkpoint action.
C16_WitnessInitialize ==
    /\ InitializeReturned
    /\ last.initReq /\ ~last.writeReq
    /\ Cardinality(Acknowledgements(action_write_initial_data)) = 1
    /\ Acknowledgements(action_write_iteration_checkpoint) = {}

\* C17: the store is empty until initialize has run; after an initialize
\* that returns it holds exactly the state (u_n, t, n) passed to initialize
\* if the write checkpoint action was required, and is still empty
\* otherwise.
C17_StoreAfterInitialize ==
    /\ phase = "constructed" => CheckpointIsEmpty(checkpoint)
    /\ InitializeReturned =>
          /\ CheckpointIsEmpty(last.cpBefore)
          /\ checkpoint = IF last.writeReq
                          THEN CheckpointWrite(CheckpointEmpty,
                                               SolverState(last.u_n, last.t, last.n))
                          ELSE CheckpointEmpty
          /\ SolverState(u_n, t, n) = SolverState(last.u_n, last.t, last.n)

\* C17, its case: initialize with step index 1 and the write checkpoint
\* action required has filled the store.
C17_Witness ==
    /\ InitializeReturned /\ last.writeReq
    /\ last.n = 1
    /\ checkpoint = <<SolverState("ua", 0, 1)>>

\* C17, the other case: initialize without the write checkpoint action has
\* left the store empty.
C17_WitnessEmpty ==
    /\ InitializeReturned /\ ~last.writeReq
    /\ CheckpointIsEmpty(checkpoint)

=============================================================================
